---- MODULE Spec2Model ----
(***************************************************************************)
(* scripts/save-backup-data.py: the backup-directory initializer.          *)
(*                                                                         *)
(* The script creates the directory "backup" and, for each of the 22       *)
(* table names, creates <table>.json holding the JSON text of an empty     *)
(* list unless a file of that name exists.  The model follows the script   *)
(* statement by statement, at the granularity of the file-system calls it  *)
(* makes: mkdir, exists (stat), open(.., 'w'), the buffered json.dump, and *)
(* the flush/close at the end of the with block.  File contents are        *)
(* sequences of characters.                                                *)
(***************************************************************************)
EXTENDS Integers, Sequences, FiniteSets, TLC

\* ------------------------------------------------------------------ bounds
MaxRuns  == 2    \* invocations of the script in one behaviour
MaxQuota == 1    \* largest finite number of free inodes / free blocks
MaxExt   == 1    \* writes by the downstream exporter in one behaviour

\* ----------------------------------------------------------- the program
\* the list with its last name lost
tables_short ==
  << "products", "inventory_movements", "product_stock_by_warehouse",
     "product_locations", "product_batches", "product_qr_assets",
     "product_label_assets", "profiles", "suppliers", "product_suppliers",
     "audit_logs", "user_settings", "user_login_events", "app_settings",
     "ai_suggestions", "ai_prediction_cache", "chat_rooms", "chat_messages",
     "batch_defect_reports", "product_modification_history", "scanner_users" >>

\* line 14-37: the fixed list of table names
tables ==
  << "products", "inventory_movements", "product_stock_by_warehouse",
     "product_locations", "product_batches", "product_qr_assets",
     "product_label_assets", "profiles", "suppliers", "product_suppliers",
     "audit_logs", "user_settings", "user_login_events", "app_settings",
     "ai_suggestions", "ai_prediction_cache", "chat_rooms", "chat_messages",
     "batch_defect_reports", "product_modification_history", "scanner_users",
     "user_permissions" >>

\* line 41: backup_dir / f"{table}.json"; a name is <<stem, suffix>>
FileName(table) == <<table, ".json">>

TableFiles == { FileName(tables[k]) : k \in 1..Len(tables) }

\* line 10: backup_dir.mkdir(exist_ok=True)
exist_ok_false == FALSE
exist_ok == TRUE

\* line 44: the indent argument of json.dump
indent == 2

Spaces(n) == [k \in 1..n |-> " "]

RECURSIVE JsonItems(_, _)
\* json.encoder._iterencode_list for a non-empty list of already encoded
\* items: newline, indentation, item, separator
JsonItems(items, ind) ==
  IF items = <<>> THEN <<>>
  ELSE <<"\n">> \o Spaces(ind) \o Head(items)
       \o (IF Len(items) > 1 THEN <<",">> ELSE <<>>)
       \o JsonItems(Tail(items), ind)

\* line 44: json.dump(obj, f, indent=ind), the text it hands to f.write.
\* An empty list is encoded as "[]" whatever the indentation.
json_dump_null(obj, ind) == <<"n", "u", "l", "l">>
json_dump(obj, ind) ==
  IF obj = <<>> THEN <<"[", "]">>
  ELSE <<"[">> \o JsonItems(obj, ind) \o <<"\n", "]">>

\* -------------------------------------------------------- the file system
\* A file system state is a record
\*   dir            "absent" | "dir" | "file": what the path backup/ is
\*   files          the regular files in backup/, name -> content
\*   writable       write permission on backup/
\*   parentWritable write permission on the parent of backup/
\*   freeInodes     files that can still be created, -1: no limit
\*   freeBlocks     data writes that can still succeed, -1: no limit

Take(n) == IF n > 0 THEN n - 1 ELSE n

\* line 10: Path.mkdir(exist_ok=...): os.mkdir, and on FileExistsError
\* re-raise unless exist_ok and the path is a directory
mkdir(fs, ok) ==
  CASE fs.dir = "dir"  ->
         IF ok THEN [fs |-> fs, err |-> "none"]
         ELSE [fs |-> fs, err |-> "FileExistsError"]
    [] fs.dir = "file" -> [fs |-> fs, err |-> "FileExistsError"]
    [] OTHER ->
         IF ~fs.parentWritable THEN [fs |-> fs, err |-> "PermissionError"]
         ELSE IF fs.freeInodes = 0 THEN [fs |-> fs, err |-> "ENOSPC"]
         ELSE [fs |-> [fs EXCEPT !.dir = "dir", !.writable = TRUE,
                                 !.freeInodes = Take(@)],
               err |-> "none"]

\* line 42: file_path.exists()
exists_never(fs, path) == FALSE
exists(fs, path) == fs.dir = "dir" /\ path \in DOMAIN fs.files

\* line 40-42: a table whose file exists is passed over and the loop goes
\* on with the next one
AfterSkip_break(k) == Len(tables) + 1
AfterSkip(k) == k + 1

\* line 43: open(file_path, 'w'): O_WRONLY | O_CREAT | O_TRUNC.  An
\* existing file is truncated; a new one needs write permission on the
\* directory and a free inode.
open_unchecked(fs, path) ==
  IF fs.dir # "dir" THEN [fs |-> fs, err |-> "FileNotFoundError"]
  ELSE IF path \in DOMAIN fs.files
    THEN [fs |-> [fs EXCEPT !.files = [@ EXCEPT ![path] = <<>>]],
          err |-> "none"]
  ELSE [fs |-> [fs EXCEPT !.files = (path :> <<>>) @@ @,
                          !.freeInodes = Take(@)],
        err |-> "none"]
open_w(fs, path) ==
  IF fs.dir # "dir" THEN [fs |-> fs, err |-> "FileNotFoundError"]
  ELSE IF path \in DOMAIN fs.files
    THEN [fs |-> [fs EXCEPT !.files = [@ EXCEPT ![path] = <<>>]],
          err |-> "none"]
  ELSE IF ~fs.writable THEN [fs |-> fs, err |-> "PermissionError"]
  ELSE IF fs.freeInodes = 0 THEN [fs |-> fs, err |-> "ENOSPC"]
  ELSE [fs |-> [fs EXCEPT !.files = (path :> <<>>) @@ @,
                          !.freeInodes = Take(@)],
        err |-> "none"]

\* the bytes of buf written at offset 0 of a file holding content
Overlay(content, buf) ==
  buf \o SubSeq(content, Len(buf) + 1, Len(content))

\* line 43-44: leaving the with block closes f, which flushes the buffer
\* with one write at the handle's offset 0.  Without a free block the
\* write fails and the file stays as open() left it.
flush(fs, path, buf) ==
  IF buf = <<>> THEN [fs |-> fs, err |-> "none"]
  ELSE IF fs.freeBlocks = 0 THEN [fs |-> fs, err |-> "ENOSPC"]
  ELSE [fs |-> [fs EXCEPT !.files = [@ EXCEPT ![path] = Overlay(@, buf)],
                          !.freeBlocks = Take(@)],
        err |-> "none"]

\* ------------------------------------------------------------------ state
VARIABLES
  fs,        \* the file system
  order,     \* the sequence of table names the for loop iterates
  pc,        \* "idle" | "mkdir" | "loop" | "open" | "dump" | "close"
             \* | "done" | "failed"
  i,         \* position of the for loop in order
  f,         \* the open file object: [path, buf], or None
  err,       \* the exception that ended the run, "none" if none
  failStep,  \* the statement that raised it
  runs,      \* invocations started so far
  start,     \* the file system when the current run started
  created,   \* names the current run opened for writing
  opens,     \* per table file, how often any run opened it for writing
  ext        \* what the exporter wrote, name -> content

vars == <<fs, order, pc, i, f, err, failStep, runs, start, created, opens, ext>>

None == [path |-> <<"", "">>, buf |-> <<>>]

\* line 41: file_path of the current iteration
file_path == FileName(order[i])

\* ---------------------------------------------------------- initial states
\* content an exporter left in a file: one exported row, or no rows
Rows == <<"[", "{", "\"", "i", "d", "\"", ":", "1", "}", "]">>
PreContents == { Rows, <<"[", "]">> }

\* a file in backup/ that is no placeholder
Unrelated == { <<"README", ".md">> }

Prefix(k) == { FileName(tables[j]) : j \in 1..k }

\* the sets of placeholders present before the first run: the first k of
\* the list, all but one, and just one
PresentSets ==
  { Prefix(k) : k \in 0..Len(tables) }
  \cup { TableFiles \ {p} : p \in TableFiles }
  \cup { {p} : p \in TableFiles }

NoLimit == << -1, -1 >>

Quotas == (-1..MaxQuota) \X (-1..MaxQuota)

MkFs(d, fl, w, pw, q) ==
  [dir |-> d, files |-> fl, writable |-> w, parentWritable |-> pw,
   freeInodes |-> q[1], freeBlocks |-> q[2]]

InitFs ==
  \* backup/ does not exist, or is a regular file
  { MkFs(d, <<>>, TRUE, pw, q) :
      d \in {"absent", "file"}, pw \in BOOLEAN, q \in Quotas }
  \cup
  \* backup/ exists
  { MkFs("dir", [p \in s[1] \cup s[2] |-> IF p \in s[1] THEN s[3] ELSE Rows],
         wq[1], TRUE, wq[2]) :
      s \in PresentSets \X (SUBSET Unrelated) \X PreContents,
      wq \in ({TRUE} \X Quotas) \cup ({FALSE} \X {NoLimit}) }

InitRest ==
  /\ pc = "idle"
  /\ i = 1
  /\ f = None
  /\ err = "none"
  /\ failStep = "none"
  /\ runs = 0
  /\ start = fs
  /\ created = {}
  /\ opens = [p \in TableFiles |-> 0]
  /\ ext = <<>>

Init ==
  /\ fs \in InitFs
  /\ order = tables
  /\ InitRest

\* ---------------------------------------------------------------- actions
Fail(step, e) ==
  /\ pc' = "failed"
  /\ err' = e
  /\ failStep' = step

\* the script is invoked
Start ==
  /\ pc = "idle"
  /\ runs < MaxRuns
  /\ pc' = "mkdir"
  /\ runs' = runs + 1
  /\ start' = fs
  /\ created' = {}
  /\ i' = 1
  /\ f' = None
  /\ err' = "none"
  /\ failStep' = "none"
  /\ UNCHANGED <<fs, order, opens, ext>>

\* line 10
Mkdir ==
  /\ pc = "mkdir"
  /\ LET r == mkdir(fs, exist_ok) IN
       /\ fs' = r.fs
       /\ IF r.err = "none"
            THEN pc' = "loop" /\ UNCHANGED <<err, failStep>>
            ELSE Fail("mkdir", r.err)
  /\ UNCHANGED <<order, i, f, runs, start, created, opens, ext>>

\* line 40-42: the next table and the test of its file
CheckExists ==
  /\ pc = "loop"
  /\ i <= Len(order)
  /\ IF exists(fs, file_path)
       THEN i' = AfterSkip(i) /\ pc' = "loop"
       ELSE i' = i /\ pc' = "open"
  /\ UNCHANGED <<fs, order, f, err, failStep, runs, start, created, opens, ext>>

\* line 43: open(file_path, 'w', encoding='utf-8')
Open ==
  /\ pc = "open"
  /\ LET r == open_w(fs, file_path) IN
       /\ fs' = r.fs
       /\ IF r.err = "none"
            THEN /\ pc' = "dump"
                 /\ f' = [path |-> file_path, buf |-> <<>>]
                 /\ created' = created \cup {file_path}
                 /\ opens' = [opens EXCEPT ![file_path] = @ + 1]
                 /\ UNCHANGED <<err, failStep>>
            ELSE /\ Fail("open", r.err)
                 /\ UNCHANGED <<f, created, opens>>
  /\ UNCHANGED <<order, i, runs, start, ext>>

\* line 44: json.dump([], f, indent=2) fills the buffer of f
Dump ==
  /\ pc = "dump"
  /\ f' = [f EXCEPT !.buf = @ \o json_dump(<<>>, indent)]
  /\ pc' = "close"
  /\ UNCHANGED <<fs, order, i, err, failStep, runs, start, created, opens, ext>>

\* line 43-45: the with block ends; close flushes; then the next table
Close ==
  /\ pc = "close"
  /\ LET r == flush(fs, f.path, f.buf) IN
       /\ fs' = r.fs
       /\ f' = None
       /\ IF r.err = "none"
            THEN pc' = "loop" /\ i' = i + 1 /\ UNCHANGED <<err, failStep>>
            ELSE Fail("close", r.err) /\ i' = i
  /\ UNCHANGED <<order, runs, start, created, opens, ext>>

\* line 47: the loop is exhausted
Finish ==
  /\ pc = "loop"
  /\ i > Len(order)
  /\ pc' = "done"
  /\ UNCHANGED <<fs, order, i, f, err, failStep, runs, start, created, opens, ext>>

\* the process exits
Exit ==
  /\ pc \in {"done", "failed"}
  /\ pc' = "idle"
  /\ UNCHANGED <<fs, order, i, f, err, failStep, runs, start, created, opens, ext>>

Next == Start \/ Mkdir \/ CheckExists \/ Open \/ Dump \/ Close \/ Finish \/ Exit

Spec == Init /\ [][Next]_vars

\* ----------------------------------------------------- the run as a function
\* line 41-44 for one table, on a file system and the error so far
StepTable(r, table) ==
  IF r.err # "none" THEN r
  ELSE LET path == FileName(table) IN
       IF exists(r.fs, path) THEN r
       ELSE LET o == open_w(r.fs, path) IN
            IF o.err # "none" THEN o
            ELSE flush(o.fs, path, json_dump(<<>>, indent))

RECURSIVE RunFrom(_, _)
\* line 40-45 over the tables of ord
RunFrom(r, ord) ==
  IF ord = <<>> THEN r ELSE RunFrom(StepTable(r, Head(ord)), Tail(ord))

\* line 9-47: one whole run from file system fs0, iterating ord
RunResult(fs0, ord) ==
  LET m == mkdir(fs0, exist_ok) IN
  IF m.err # "none" THEN m ELSE RunFrom(m, ord)

\* ------------------------------------------------- the downstream exporter
\* The exporter replaces <table>.json by the exported rows: it creates or
\* truncates the file and writes the records, here in one step.
ExternalWrite(p, c) ==
  /\ fs.dir = "dir"
  /\ p \notin DOMAIN ext
  /\ Cardinality(DOMAIN ext) < MaxExt
  /\ fs' = [fs EXCEPT !.files = (p :> c) @@ @]
  /\ ext' = (p :> c) @@ ext
  /\ UNCHANGED <<order, pc, i, f, err, failStep, runs, start, created, opens>>

\* the exporter runs between two invocations of the script
ExportBetweenRuns ==
  /\ pc = "idle"
  /\ runs >= 1
  /\ \E p \in TableFiles, c \in PreContents : ExternalWrite(p, c)

\* the exporter runs at any moment, also while the script is running
ExportAnyTime ==
  \E p \in TableFiles : ExternalWrite(p, Rows)

\* sequences of runs with exports in between
InitSeq ==
  /\ fs \in { MkFs("dir", [p \in Prefix(k) |-> Rows], TRUE, TRUE, q) :
               k \in {0, Len(tables) - 1}, q \in Quotas }
  /\ order = tables
  /\ InitRest

NextSeq ==
  Start \/ Mkdir \/ CheckExists \/ Open \/ Dump \/ Close \/ Finish \/ Exit
  \/ ExportBetweenRuns

SpecSeq == InitSeq /\ [][NextSeq]_vars

\* one run with the exporter running beside it
InitConc ==
  /\ fs \in { MkFs("dir", [p \in Prefix(k) |-> Rows], TRUE, TRUE, NoLimit) :
               k \in {0, 1, Len(tables) - 1} }
  /\ order = tables
  /\ InitRest

NextConc ==
  Start \/ Mkdir \/ CheckExists \/ Open \/ Dump \/ Close \/ Finish
  \/ ExportAnyTime

SpecConc == InitConc /\ [][NextConc]_vars

\* one run that iterates the tables in another order
Reverse(s) == [k \in 1..Len(s) |-> s[Len(s) + 1 - k]]
Rotate(s, n) == SubSeq(s, n + 1, Len(s)) \o SubSeq(s, 1, n)
Orders == { Reverse(tables) } \cup { Rotate(tables, n) : n \in 0..(Len(tables) - 1) }

\* the disk may run out of inodes, so that open fails, but every write of
\* data succeeds
InitPerm ==
  /\ fs \in { MkFs("dir", [p \in s |-> Rows], w, TRUE, << n, -1 >>) :
               s \in PresentSets, w \in BOOLEAN, n \in -1..MaxQuota }
  /\ order \in Orders
  /\ InitRest

NextPerm ==
  Start \/ Mkdir \/ CheckExists \/ Open \/ Dump \/ Close \/ Finish

SpecPerm == InitPerm /\ [][NextPerm]_vars

\* ------------------------------------------------------------- properties
Terminal == pc \in {"done", "failed"}

EmptyArray == <<"[", "]">>

StartTableFiles == TableFiles \cap DOMAIN start.files

\* C1: every placeholder that exists when a run starts keeps its content
\* during and after the run, and the run never holds such a file open for
\* writing.
C1_NonDestructive ==
  /\ \A p \in StartTableFiles :
       p \in DOMAIN fs.files /\ fs.files[p] = start.files[p]
  /\ f # None => f.path \notin DOMAIN start.files

C1_Witness ==
  /\ pc = "done"
  /\ created # {}
  /\ \E p \in StartTableFiles : start.files[p] = Rows /\ fs.files[p] = Rows

\* C2: a run that starts with backup/ absent or empty and completes leaves
\* backup/ existing with exactly the 22 files <table>.json, each "[]".
C2_FreshRun ==
  (/\ pc = "done"
   /\ \/ start.dir = "absent"
      \/ start.dir = "dir" /\ DOMAIN start.files = {})
  => /\ fs.dir = "dir"
     /\ DOMAIN fs.files = TableFiles
     /\ Cardinality(DOMAIN fs.files) = 22
     /\ \A p \in DOMAIN fs.files : fs.files[p] = EmptyArray

C2_Witness ==
  /\ pc = "done"
  /\ start.dir = "absent"
  /\ Cardinality(DOMAIN fs.files) = 22

\* C3 (as claimed): a run that directly follows another run ends with the
\* directory as it found it and opens no file for writing.
C3_Idempotent ==
  (runs >= 2 /\ Terminal)
  => /\ fs.dir = start.dir
     /\ fs.files = start.files
     /\ created = {}

\* C4: a run that completes creates exactly the placeholders missing at
\* its start, each "[]", and leaves those present at its start as they
\* were; afterwards all 22 exist.
C4_FillsMissing ==
  pc = "done"
  => /\ created = TableFiles \ DOMAIN start.files
     /\ TableFiles \subseteq DOMAIN fs.files
     /\ \A p \in TableFiles :
          fs.files[p] = IF p \in DOMAIN start.files THEN start.files[p]
                        ELSE EmptyArray

C4_Witness ==
  /\ pc = "done"
  /\ Cardinality(StartTableFiles) = Len(tables) - 1
  /\ \A p \in StartTableFiles : fs.files[p] = Rows
  /\ \E p \in created : fs.files[p] = EmptyArray

\* C5 (as claimed): with write permission on backup/ denied the run ends
\* in a filesystem error and the set of files is the one before the run.
C5_DeniedFails ==
  (Terminal /\ start.dir = "dir" /\ ~start.writable)
  => /\ pc = "failed"
     /\ DOMAIN fs.files = DOMAIN start.files

\* C5 (amended): with write permission on backup/ denied no file is
\* created or changed; the run ends in a PermissionError raised by open
\* exactly when some placeholder is missing, and completes otherwise.
C5_DeniedCreatesNothing ==
  (Terminal /\ start.dir = "dir" /\ ~start.writable)
  => /\ fs.files = start.files
     /\ pc = "failed" <=> ~(TableFiles \subseteq DOMAIN start.files)
     /\ pc = "failed" => err = "PermissionError" /\ failStep = "open"

C5_Witness ==
  /\ pc = "failed"
  /\ ~start.writable
  /\ err = "PermissionError"
  /\ i > 1
  /\ fs.files = start.files

\* C6 (as claimed): when open or the write of the k-th table's file fails,
\* the files created before are "[]", the k-th file does not exist, and no
\* later table's file is created.
C6_AbortLeavesNoFile ==
  (pc = "failed" /\ failStep \in {"open", "close"})
  => /\ file_path \notin DOMAIN fs.files
     /\ \A p \in created \ {file_path} : fs.files[p] = EmptyArray
     /\ \A k \in (i + 1)..Len(order) : FileName(order[k]) \notin created

\* C7: a run against an existing backup/ does not fail in mkdir, and every
\* file of backup/ that is no placeholder is there unchanged.
C7_MkdirIdempotent ==
  start.dir = "dir"
  => /\ failStep # "mkdir"
     /\ fs.dir = "dir"
     /\ \A p \in DOMAIN start.files \ TableFiles :
          p \in DOMAIN fs.files /\ fs.files[p] = start.files[p]

C7_Witness ==
  /\ pc = "done"
  /\ start.dir = "dir"
  /\ created # {}
  /\ \E p \in Unrelated : p \in DOMAIN fs.files /\ fs.files[p] = Rows

\* C8 (as claimed): a run in any order ends, however it ends, in the
\* directory state in which the run in the declared order ends.
C8_OrderIndependent ==
  Terminal => fs = RunResult(start, tables).fs

\* C8 (amended): if the run in the permuted order or the run in the
\* declared order completes, both complete and end in the same state.
C8_OrderIndependentWhenComplete ==
  LET r == RunResult(start, tables) IN
  (Terminal /\ (pc = "done" \/ r.err = "none"))
  => /\ pc = "done"
     /\ r.err = "none"
     /\ fs = r.fs

C8_Witness ==
  /\ pc = "done"
  /\ order # tables
  /\ created # {}
  /\ StartTableFiles # {}

\* C9: no step of any run changes, or opens for writing, a placeholder
\* that exists, other than the file the run has just created and still
\* holds open; no placeholder is opened for writing twice.
C9_WrittenOnce ==
  /\ [](\A p \in TableFiles : opens[p] <= 1)
  /\ [][\A p \in TableFiles :
          (p \in DOMAIN fs.files /\ f.path # p /\ ext' = ext)
          => /\ p \in DOMAIN fs'.files
             /\ fs'.files[p] = fs.files[p]
             /\ opens'[p] = opens[p]]_vars

C9_Witness ==
  /\ runs = MaxRuns
  /\ pc = "done"
  /\ \E p \in DOMAIN ext : opens[p] = 1 /\ fs.files[p] = Rows

\* C10 (as claimed): what the exporter wrote into a placeholder stays
\* there whatever the run does.
C10_ExportSurvives ==
  \A p \in DOMAIN ext : p \in DOMAIN fs.files /\ fs.files[p] = ext[p]

====
